---------------------------- MODULE Spec2Model ----------------------------
(***************************************************************************)
(* A model of the BBJ network client (src/clients/network_client.py).     *)
(*                                                                         *)
(* The client is a single-threaded object.  Every method blocks on the    *)
(* transport (urllib.request.urlopen) once per request it issues, so a    *)
(* method call is modelled as a call stack of frames that is entered by   *)
(* one action per public method and resumed, once per request, by the     *)
(* action Deliver, which hands the transport's response to the innermost  *)
(* frame and runs the code up to the next request or to the end of the    *)
(* call.  The server is not part of the repository: in Spec its responses  *)
(* are chosen nondeterministically; in SpecStore they are those of a       *)
(* server that keeps the accounts registered with it.                      *)
(***************************************************************************)
EXTENDS Integers, Sequences, FiniteSets, TLC

VARIABLES
    base,       \* self.base
    user_name,  \* self.user_name
    user_auth,  \* self.user_auth
    send_auth,  \* self.send_auth
    user,       \* self.user, the cached profile
    stack,      \* the frames of the call in progress, innermost last
    call,       \* the public method called last, its arguments, and the
                \* Credential State it was called in
    log,        \* the exchanges with the transport during that call, in order:
                \* each request handed to it and what request read back
    result,     \* how that call ended: pending, return or raise
    accounts,   \* the storing server: the auth_hash kept for each user name
    registered  \* for each user name kept, the user_auth and hash_auth
                \* arguments of the user_register call that registered it

vars == <<base, user_name, user_auth, send_auth, user, stack, call, log, result,
          accounts, registered>>

(***************************************************************************)
(* Bounds and input domains.                                               *)
(***************************************************************************)
\* Error codes the server may send are 0..MaxCode; 0..5 are the known ones.
MaxCode == 6
\* validate_all is called with at most MaxPairs pairs.
MaxPairs == 2

\* Python's None, distinct from every string of the input domains.
None == "None"

\* The user names given to set_credentials, and those given to user_register
\* and validate_credentials; the secrets, raw or taken as hashes.
UserNames == {"", "alice", "bob"}
RegisteredNames == {"alice"}
Secrets == {"", "pw"}
Endpoints == {"get_me", "thread_index"}
ExceptionKinds == {None, "AssertionError"}

(***************************************************************************)
(* Python and JSON values, tagged by their type.                           *)
(***************************************************************************)
Null == [t |-> "null"]
Bool(b) == [t |-> "bool", v |-> b]
Str(s) == [t |-> "str", v |-> s]
Num(n) == [t |-> "int", v |-> n]
List(s) == [t |-> "list", v |-> s]
Obj(f) == [t |-> "dict", v |-> f]

\* The truth value Python gives a value in a boolean context.
Truthy(x) ==
    CASE x.t = "null" -> FALSE
      [] x.t = "bool" -> x.v
      [] x.t = "str" -> x.v # ""
      [] x.t = "int" -> x.v # 0
      [] x.t = "list" -> x.v # <<>>
      [] x.t = "dict" -> DOMAIN x.v # {}

\* dict.get(key): the value, or None.
Get(d, key) == IF key \in DOMAIN d.v THEN d.v[key] ELSE Null

\* The truth value of self.user_name and self.user_auth: None or a string.
TruthyStr(s) == s # None /\ s # ""

\* sha256(bytes(s, "utf8")).hexdigest(): a digest is never its own input,
\* and distinct inputs give distinct digests.
sha256(s) == "sha256(" \o s \o ")"

\* json.dumps followed by bytes(..., "utf8"), and its inverse on the wire.
json_dumps(value) == [utf8_json |-> value]
IsJson(text) == "utf8_json" \in DOMAIN text
json_loads(text) == text.utf8_json
NotJson == [garbage |-> "<html>"]

\* How a call, or a callee, ends.
Return(v) == [kind |-> "return", value |-> v]
Raise(e) == [kind |-> "raise", exc |-> e]
Pending == [kind |-> "pending"]

\* An exception: its class, its argument, and the attributes attached to it.
Exception(type, arg, attrs) == [type |-> type, arg |-> arg, attrs |-> attrs]
NoAttrs == <<>>

(***************************************************************************)
(* The request pipeline.                                                   *)
(***************************************************************************)
\* dict.pop(key)
Pop(params, key) == [k \in DOMAIN params \ {key} |-> params[k]]

\* params.get("no_auth") in a boolean context.
NoAuthRequested(params) == "no_auth" \in DOMAIN params /\ params["no_auth"]

\* A faulty request: the credentials are attached whatever send_auth is.
request_send_ignoring_send_auth(self, endpoint, params) ==
    LET content == "Content-Type" :> "application/json"
        body == IF NoAuthRequested(params) THEN Pop(params, "no_auth") ELSE params
        headers ==
            IF NoAuthRequested(params) THEN content
            ELSE IF TruthyStr(self.user_name) /\ TruthyStr(self.user_auth)
                 THEN ("User" :> self.user_name) @@ ("Auth" :> self.user_auth) @@ content
                 ELSE content
    IN  [url |-> [base |-> self.base, endpoint |-> endpoint],
         data |-> json_dumps(body),
         headers |-> headers]

\* request, up to the call of urlopen: the request handed to the transport.
request_send(self, endpoint, params) ==
    LET content == "Content-Type" :> "application/json"
        body == IF NoAuthRequested(params) THEN Pop(params, "no_auth") ELSE params
        headers ==
            IF NoAuthRequested(params) THEN content
            ELSE IF self.send_auth /\ TruthyStr(self.user_name) /\ TruthyStr(self.user_auth)
                 THEN ("User" :> self.user_name) @@ ("Auth" :> self.user_auth) @@ content
                 ELSE content
    IN  [url |-> [base |-> self.base, endpoint |-> endpoint],
         data |-> json_dumps(body),
         headers |-> headers]

\* A faulty raise_exception: code 2 is not among the internal faults and is
\* taken for an invalid argument.
raise_exception_code_2_misplaced(error_object) ==
    LET description == error_object.v.description
        code == error_object.v.code
        attrs == ("code" :> code) @@ ("description" :> description)
                    @@ ("body" :> error_object)
    IN  IF code.v \in {0, 1} THEN Raise(Exception("ChildProcessError", description, attrs))
        ELSE IF code.v \in {2, 3} THEN Raise(Exception("ValueError", description, attrs))
        ELSE IF code.v = 4 THEN Raise(Exception("UserWarning", description, attrs))
        ELSE IF code.v = 5 THEN Raise(Exception("ConnectionRefusedError", description, attrs))
        ELSE Raise(Exception("UnboundLocalError", Str("e"), NoAttrs))

\* raise_exception: the exception raised for an API error object.
raise_exception(error_object) ==
    LET description == error_object.v.description
        code == error_object.v.code
        attrs == ("code" :> code) @@ ("description" :> description)
                    @@ ("body" :> error_object)
    IN  IF code.v \in {0, 1, 2} THEN Raise(Exception("ChildProcessError", description, attrs))
        ELSE IF code.v = 3 THEN Raise(Exception("ValueError", description, attrs))
        ELSE IF code.v = 4 THEN Raise(Exception("UserWarning", description, attrs))
        ELSE IF code.v = 5 THEN Raise(Exception("ConnectionRefusedError", description, attrs))
        ELSE Raise(Exception("UnboundLocalError", Str("e"), NoAttrs))

\* request, from urlopen on: what the call of request does with the
\* transport's answer.  A refused connection raises URLError; a response of
\* any status is read and decoded.
request_recv(response) ==
    IF response.conn = "refused"
    THEN Raise(Exception("URLError", Str("Connection refused"), NoAttrs))
    ELSE IF ~IsJson(response.text)
    THEN Raise(Exception("JSONDecodeError", Str("Expecting value"), NoAttrs))
    ELSE LET value == json_loads(response.text)
         IN  IF Truthy(value) /\ Truthy(Get(value, "error"))
             THEN raise_exception(value.v["error"])
             ELSE Return(value)

(***************************************************************************)
(* The methods.  A method is entered by its _call operator, which pushes   *)
(* its frame on the stack below it and runs to its first request, and is   *)
(* continued by its _resume operator, which is given how its callee ended. *)
(* A step either blocks on a request it sent or ends the method.           *)
(***************************************************************************)
Blocked(self, stk, req) == [self |-> self, stack |-> stk, sent |-> <<req>>, out |-> Pending]
Ended(self, outcome) == [self |-> self, stack |-> <<>>, sent |-> <<>>, out |-> outcome]

KeyError(key) == Raise(Exception("KeyError", Str(key), NoAttrs))

\* A faulty request: asking for no_auth switches send_auth off for good.
request_call_clearing_send_auth(self, stk, endpoint, params) ==
    Blocked([self EXCEPT !.send_auth = self.send_auth /\ ~NoAuthRequested(params)],
            Append(stk, [fn |-> "request"]),
            [endpoint |-> endpoint, params |-> params,
             request |-> request_send(self, endpoint, params)])

\* self(endpoint, **params): __call__ is request.
request_call(self, stk, endpoint, params) ==
    Blocked(self, Append(stk, [fn |-> "request"]),
            [endpoint |-> endpoint, params |-> params,
             request |-> request_send(self, endpoint, params)])

\* validate, up to its request.
validate_call(self, stk, key, value, exception) ==
    request_call(self, Append(stk, [fn |-> "validate", exception |-> exception]),
                 "db_validate",
                 ("no_auth" :> TRUE) @@ ("key" :> key) @@ ("value" :> value))

\* A faulty validate: the exception argument is called without the test for
\* None, so boolean mode ends with the TypeError of calling None.
validate_resume_calling_none(self, frame, below, outcome) ==
    IF outcome.kind = "raise" THEN Ended(self, outcome)
    ELSE IF "data" \notin DOMAIN outcome.value.v THEN Ended(self, KeyError("data"))
    ELSE LET data == outcome.value.v["data"]
         IN  IF ~Truthy(data.v["bool"])
             THEN IF frame.exception = None
                  THEN Ended(self, Raise(Exception("TypeError",
                                   Str("'NoneType' object is not callable"), NoAttrs)))
                  ELSE Ended(self, Raise(Exception(frame.exception, data.v["description"],
                                   "description" :> data.v["description"])))
             ELSE Ended(self, Return(Bool(TRUE)))

\* validate, after its request.
validate_resume(self, frame, below, outcome) ==
    IF outcome.kind = "raise" THEN Ended(self, outcome)
    ELSE IF "data" \notin DOMAIN outcome.value.v THEN Ended(self, KeyError("data"))
    ELSE LET data == outcome.value.v["data"]
         IN  IF ~Truthy(data.v["bool"])
             THEN IF frame.exception = None
                  THEN Ended(self, Return(Bool(FALSE)))
                  ELSE Ended(self, Raise(Exception(frame.exception, data.v["description"],
                                   "description" :> data.v["description"])))
             ELSE Ended(self, Return(Bool(TRUE)))

\* validate_all on a non-empty list, up to the first request.
validate_all_call(self, stk, keys_and_values, exception) ==
    validate_call(self,
                  Append(stk, [fn |-> "validate_all", keys_and_values |-> keys_and_values,
                               exception |-> exception, results |-> <<>>]),
                  keys_and_values[1][1], keys_and_values[1][2], exception)

\* A faulty validate_all: a pair that raised counts as False and the rest of
\* the list is still validated.
validate_all_resume_collecting(self, frame, below, outcome) ==
    LET results == Append(frame.results,
                          IF outcome.kind = "raise" THEN Bool(FALSE) ELSE outcome.value)
        next == Len(results) + 1
    IN  IF next <= Len(frame.keys_and_values)
        THEN validate_call(self, Append(below, [frame EXCEPT !.results = results]),
                           frame.keys_and_values[next][1],
                           frame.keys_and_values[next][2], frame.exception)
        ELSE Ended(self, Return(List(results)))

\* validate_all, after one call of validate: the next pair, or the list.
validate_all_resume(self, frame, below, outcome) ==
    IF outcome.kind = "raise" THEN Ended(self, outcome)
    ELSE LET results == Append(frame.results, outcome.value)
             next == Len(results) + 1
         IN  IF next <= Len(frame.keys_and_values)
             THEN validate_call(self, Append(below, [frame EXCEPT !.results = results]),
                                frame.keys_and_values[next][1],
                                frame.keys_and_values[next][2], frame.exception)
             ELSE Ended(self, Return(List(results)))

\* A faulty validate_credentials: with exception off the shapes are validated
\* in boolean mode and the list of results is ignored.
validate_credentials_call_boolean_shapes(self, stk, name, auth, exception) ==
    validate_all_call(self,
                      Append(stk, [fn |-> "validate_credentials", at |-> "validate_all",
                                   user_name |-> name, user_auth |-> auth,
                                   exception |-> exception]),
                      << <<"user_name", name>>, <<"auth_hash", auth>> >>,
                      IF exception THEN "ValueError" ELSE None)

\* validate_credentials, up to the first request.
validate_credentials_call(self, stk, name, auth, exception) ==
    validate_all_call(self,
                      Append(stk, [fn |-> "validate_credentials", at |-> "validate_all",
                                   user_name |-> name, user_auth |-> auth,
                                   exception |-> exception]),
                      << <<"user_name", name>>, <<"auth_hash", auth>> >>, "ValueError")

\* A faulty validate_credentials: ConnectionRefusedError is raised again
\* whatever the exception argument.
validate_credentials_resume_always_raising(self, frame, below, outcome) ==
    IF frame.at = "validate_all"
    THEN IF outcome.kind = "raise" THEN Ended(self, outcome)
         ELSE request_call(self, Append(below, [frame EXCEPT !.at = "check_auth"]),
                           "check_auth",
                           ("no_auth" :> TRUE) @@ ("target_user" :> frame.user_name)
                               @@ ("target_hash" :> frame.user_auth))
    ELSE IF outcome.kind = "raise" THEN Ended(self, outcome)
         ELSE IF "data" \notin DOMAIN outcome.value.v THEN Ended(self, KeyError("data"))
         ELSE Ended(self, Return(outcome.value.v["data"]))

\* validate_credentials, after validate_all and after the check_auth request.
validate_credentials_resume(self, frame, below, outcome) ==
    IF frame.at = "validate_all"
    THEN IF outcome.kind = "raise" THEN Ended(self, outcome)
         ELSE request_call(self, Append(below, [frame EXCEPT !.at = "check_auth"]),
                           "check_auth",
                           ("no_auth" :> TRUE) @@ ("target_user" :> frame.user_name)
                               @@ ("target_hash" :> frame.user_auth))
    ELSE IF outcome.kind = "raise"
         THEN IF outcome.exc.type = "ConnectionRefusedError" /\ ~frame.exception
              THEN Ended(self, Return(Bool(FALSE)))
              ELSE Ended(self, outcome)
         ELSE IF "data" \notin DOMAIN outcome.value.v THEN Ended(self, KeyError("data"))
         ELSE Ended(self, Return(outcome.value.v["data"]))

\* A faulty commit: the get_me request is built before the assignments.
set_credentials_commit_after_request(self, stk, frame) ==
    [request_call(self, Append(stk, [frame EXCEPT !.at = "get_me"]), "get_me", <<>>)
        EXCEPT !.self = [self EXCEPT !.user_auth = frame.user_auth,
                                     !.user_name = frame.user_name]]

\* set_credentials from the commit on: the assignments and the get_me request.
set_credentials_commit(self, stk, frame) ==
    request_call([self EXCEPT !.user_auth = frame.user_auth, !.user_name = frame.user_name],
                 Append(stk, [frame EXCEPT !.at = "get_me"]), "get_me", <<>>)

\* set_credentials, up to its first request.
set_credentials_call(self, stk, name, auth, hash_auth, check_validity) ==
    LET hashed == IF hash_auth THEN sha256(auth) ELSE auth
        frame == [fn |-> "set_credentials", at |-> "validate_credentials",
                  user_name |-> name, user_auth |-> hashed]
    IN  IF check_validity
        THEN validate_credentials_call(self, Append(stk, frame), name, hashed, TRUE)
        ELSE set_credentials_commit(self, stk, frame)

\* A faulty set_credentials: a failed verification resets user_auth alone.
set_credentials_resume_half_reset(self, frame, below, outcome) ==
    IF outcome.kind = "raise" THEN Ended(self, outcome)
    ELSE IF frame.at = "validate_credentials"
    THEN IF ~Truthy(outcome.value)
         THEN Ended([self EXCEPT !.user_auth = None],
                    Raise(Exception("ConnectionRefusedError",
                                    Str("Auth and User do not match"), NoAttrs)))
         ELSE set_credentials_commit(self, below, frame)
    ELSE IF "data" \notin DOMAIN outcome.value.v THEN Ended(self, KeyError("data"))
    ELSE Ended([self EXCEPT !.user = outcome.value.v["data"]], Return(Bool(TRUE)))

\* A faulty set_credentials: the credentials are reset whenever
\* validate_credentials raises, whatever it raises.
set_credentials_resume_reset_on_raise(self, frame, below, outcome) ==
    IF outcome.kind = "raise"
    THEN IF frame.at = "validate_credentials"
         THEN Ended([self EXCEPT !.user_auth = None, !.user_name = None], outcome)
         ELSE Ended(self, outcome)
    ELSE IF frame.at = "validate_credentials"
    THEN IF ~Truthy(outcome.value)
         THEN Ended([self EXCEPT !.user_auth = None, !.user_name = None],
                    Raise(Exception("ConnectionRefusedError",
                                    Str("Auth and User do not match"), NoAttrs)))
         ELSE set_credentials_commit(self, below, frame)
    ELSE IF "data" \notin DOMAIN outcome.value.v THEN Ended(self, KeyError("data"))
    ELSE Ended([self EXCEPT !.user = outcome.value.v["data"]], Return(Bool(TRUE)))

\* set_credentials, after validate_credentials and after the get_me request.
set_credentials_resume(self, frame, below, outcome) ==
    IF outcome.kind = "raise" THEN Ended(self, outcome)
    ELSE IF frame.at = "validate_credentials"
    THEN IF ~Truthy(outcome.value)
         THEN Ended([self EXCEPT !.user_auth = None, !.user_name = None],
                    Raise(Exception("ConnectionRefusedError",
                                    Str("Auth and User do not match"), NoAttrs)))
         ELSE set_credentials_commit(self, below, frame)
    ELSE IF "data" \notin DOMAIN outcome.value.v THEN Ended(self, KeyError("data"))
    ELSE Ended([self EXCEPT !.user = outcome.value.v["data"]], Return(Bool(TRUE)))

\* user_register, up to its request.
user_register_call(self, stk, name, auth, hash_auth, set_as_user) ==
    LET hashed == IF hash_auth THEN sha256(auth) ELSE auth
    IN  request_call(self,
                     Append(stk, [fn |-> "user_register", at |-> "user_register",
                                  user_name |-> name, user_auth |-> hashed,
                                  set_as_user |-> set_as_user, response |-> Null]),
                     "user_register",
                     ("no_auth" :> TRUE) @@ ("user_name" :> name) @@ ("auth_hash" :> hashed))

\* A faulty user_register: set_credentials is left to hash the hash again.
user_register_resume_hashing_twice(self, frame, below, outcome) ==
    IF outcome.kind = "raise" THEN Ended(self, outcome)
    ELSE IF frame.at = "set_credentials" THEN Ended(self, Return(frame.response))
    ELSE IF "data" \notin DOMAIN outcome.value.v THEN Ended(self, KeyError("data"))
    ELSE LET response == outcome.value.v["data"]
         IN  IF ~(Str(frame.user_auth) = response.v["auth_hash"]
                  /\ Str(frame.user_name) = response.v["user_name"])
             THEN Ended(self, Raise(Exception("AssertionError", Null, NoAttrs)))
             ELSE IF frame.set_as_user
             THEN set_credentials_call(self,
                      Append(below, [frame EXCEPT !.at = "set_credentials",
                                                  !.response = response]),
                      frame.user_name, frame.user_auth, TRUE, TRUE)
             ELSE Ended(self, Return(response))

\* A faulty user_register: the assertion compares the echoed user_name alone.
user_register_resume_name_only(self, frame, below, outcome) ==
    IF outcome.kind = "raise" THEN Ended(self, outcome)
    ELSE IF frame.at = "set_credentials" THEN Ended(self, Return(frame.response))
    ELSE IF "data" \notin DOMAIN outcome.value.v THEN Ended(self, KeyError("data"))
    ELSE LET response == outcome.value.v["data"]
         IN  IF ~(Str(frame.user_name) = response.v["user_name"])
             THEN Ended(self, Raise(Exception("AssertionError", Null, NoAttrs)))
             ELSE IF frame.set_as_user
             THEN set_credentials_call(self,
                      Append(below, [frame EXCEPT !.at = "set_credentials",
                                                  !.response = response]),
                      frame.user_name, frame.user_auth, FALSE, TRUE)
             ELSE Ended(self, Return(response))

\* A faulty user_register: set_credentials is called with check_validity off.
user_register_resume_unverified(self, frame, below, outcome) ==
    IF outcome.kind = "raise" THEN Ended(self, outcome)
    ELSE IF frame.at = "set_credentials" THEN Ended(self, Return(frame.response))
    ELSE IF "data" \notin DOMAIN outcome.value.v THEN Ended(self, KeyError("data"))
    ELSE LET response == outcome.value.v["data"]
         IN  IF ~(Str(frame.user_auth) = response.v["auth_hash"]
                  /\ Str(frame.user_name) = response.v["user_name"])
             THEN Ended(self, Raise(Exception("AssertionError", Null, NoAttrs)))
             ELSE IF frame.set_as_user
             THEN set_credentials_call(self,
                      Append(below, [frame EXCEPT !.at = "set_credentials",
                                                  !.response = response]),
                      frame.user_name, frame.user_auth, FALSE, FALSE)
             ELSE Ended(self, Return(response))

\* user_register, after its request and after set_credentials.  The call of
\* set_credentials passes hash_auth=False and leaves check_validity at its
\* default, True.
user_register_resume(self, frame, below, outcome) ==
    IF outcome.kind = "raise" THEN Ended(self, outcome)
    ELSE IF frame.at = "set_credentials" THEN Ended(self, Return(frame.response))
    ELSE IF "data" \notin DOMAIN outcome.value.v THEN Ended(self, KeyError("data"))
    ELSE LET response == outcome.value.v["data"]
         IN  IF ~(Str(frame.user_auth) = response.v["auth_hash"]
                  /\ Str(frame.user_name) = response.v["user_name"])
             THEN Ended(self, Raise(Exception("AssertionError", Null, NoAttrs)))
             ELSE IF frame.set_as_user
             THEN set_credentials_call(self,
                      Append(below, [frame EXCEPT !.at = "set_credentials",
                                                  !.response = response]),
                      frame.user_name, frame.user_auth, FALSE, TRUE)
             ELSE Ended(self, Return(response))

\* user_update, up to its first request.
user_update_call(self, stk, params) ==
    request_call(self, Append(stk, [fn |-> "user_update", at |-> "user_update",
                                    response |-> Null]),
                 "user_update", params)

\* A faulty user_update: the data of the get_me answer is returned.
user_update_resume_returning_profile(self, frame, below, outcome) ==
    IF outcome.kind = "raise" THEN Ended(self, outcome)
    ELSE IF frame.at = "user_update"
    THEN request_call(self, Append(below, [frame EXCEPT !.at = "get_me",
                                                        !.response = outcome.value]),
                      "get_me", <<>>)
    ELSE IF "data" \notin DOMAIN outcome.value.v THEN Ended(self, KeyError("data"))
    ELSE LET refreshed == [self EXCEPT !.user = outcome.value.v["data"]]
         IN  IF "data" \notin DOMAIN frame.response.v
             THEN Ended(refreshed, KeyError("data"))
             ELSE Ended(refreshed, Return(outcome.value.v["data"]))

\* user_update, after the user_update request and after the get_me request.
user_update_resume(self, frame, below, outcome) ==
    IF outcome.kind = "raise" THEN Ended(self, outcome)
    ELSE IF frame.at = "user_update"
    THEN request_call(self, Append(below, [frame EXCEPT !.at = "get_me",
                                                        !.response = outcome.value]),
                      "get_me", <<>>)
    ELSE IF "data" \notin DOMAIN outcome.value.v THEN Ended(self, KeyError("data"))
    ELSE LET refreshed == [self EXCEPT !.user = outcome.value.v["data"]]
         IN  IF "data" \notin DOMAIN frame.response.v
             THEN Ended(refreshed, KeyError("data"))
             ELSE Ended(refreshed, Return(frame.response.v["data"]))

\* __init__, after the assignments: the get_me request.
init_call(self) == request_call(self, <<[fn |-> "__init__"]>>, "get_me", <<>>)

\* A faulty __init__: a refused connection is swallowed and the instance is
\* returned without a profile.
init_resume_swallowing_unreachable(self, frame, below, outcome) ==
    IF outcome.kind = "raise"
    THEN IF outcome.exc.type = "URLError"
         THEN Ended(self, Return(Null))
         ELSE Ended(self, outcome)
    ELSE IF "data" \notin DOMAIN outcome.value.v THEN Ended(self, KeyError("data"))
    ELSE Ended([self EXCEPT !.user = outcome.value.v["data"]], Return(Null))

\* __init__, after the get_me request.
init_resume(self, frame, below, outcome) ==
    IF outcome.kind = "raise"
    THEN IF outcome.exc.type = "URLError"
         THEN Ended(self, Raise(Exception("URLError", Str("Cannot connect (is the server down?)"),
                                          NoAttrs)))
         ELSE Ended(self, outcome)
    ELSE IF "data" \notin DOMAIN outcome.value.v THEN Ended(self, KeyError("data"))
    ELSE Ended([self EXCEPT !.user = outcome.value.v["data"]], Return(Null))

\* The frame `frame`, whose callee ended with `outcome`, runs on.
frame_resume(self, frame, below, outcome) ==
    CASE frame.fn = "validate" -> validate_resume(self, frame, below, outcome)
      [] frame.fn = "validate_all" -> validate_all_resume(self, frame, below, outcome)
      [] frame.fn = "validate_credentials" ->
            validate_credentials_resume(self, frame, below, outcome)
      [] frame.fn = "set_credentials" -> set_credentials_resume(self, frame, below, outcome)
      [] frame.fn = "user_register" -> user_register_resume(self, frame, below, outcome)
      [] frame.fn = "user_update" -> user_update_resume(self, frame, below, outcome)
      [] frame.fn = "__init__" -> init_resume(self, frame, below, outcome)

\* Python's return and raise: the innermost frame ended with `outcome`, which
\* goes to its caller, and so on until a frame blocks on a request or the
\* stack is empty.
RECURSIVE Unwind(_, _, _)
Unwind(self, stk, outcome) ==
    IF stk = <<>> THEN Ended(self, outcome)
    ELSE LET below == SubSeq(stk, 1, Len(stk) - 1)
             step == frame_resume(self, stk[Len(stk)], below, outcome)
         IN  IF step.out.kind = "pending" THEN step
             ELSE Unwind(step.self, below, step.out)

(***************************************************************************)
(* The server and the transport.  A request is answered by a refused       *)
(* connection, or by a response of some status whose body is not JSON, is  *)
(* an empty object, is an error envelope, or carries data of the shape     *)
(* the endpoint documents.                                                 *)
(***************************************************************************)
Profiles == {Obj([user_name |-> Str("anonymous")]), Obj([user_name |-> Str("alice")])}

ErrorObject(code) ==
    Obj([code |-> Num(code), description |-> Str("error " \o ToString(code))])

Sent(req) == req.data.utf8_json

ServerData(req) ==
    CASE req.url.endpoint = "db_validate" ->
            {Obj([bool |-> Bool(TRUE), description |-> Null]),
             Obj([bool |-> Bool(FALSE), description |-> Str("illegal value")])}
      [] req.url.endpoint = "check_auth" -> {Bool(TRUE), Bool(FALSE)}
      [] req.url.endpoint = "user_register" ->
            {Obj([user_name |-> Str(n), auth_hash |-> Str(h)]) :
                <<n, h>> \in {<<Sent(req)["user_name"], Sent(req)["auth_hash"]>>,
                              <<"mallory", Sent(req)["auth_hash"]>>,
                              <<Sent(req)["user_name"], "0000">>}}
      [] OTHER -> Profiles

Bodies(req) ==
    {Obj(<<>>)}
    \cup {Obj([error |-> ErrorObject(c), data |-> Null]) : c \in 0..MaxCode}
    \cup {Obj([error |-> Bool(FALSE), data |-> d]) : d \in ServerData(req)}

Responses(req) ==
    {[conn |-> "refused"]}
    \cup {[conn |-> "ok", status |-> s, text |-> t] :
            s \in {200, 400}, t \in {NotJson} \cup {json_dumps(b) : b \in Bodies(req)}}

(***************************************************************************)
(* The state machine.                                                      *)
(***************************************************************************)
Self == [base |-> base, user_name |-> user_name, user_auth |-> user_auth,
         send_auth |-> send_auth, user |-> user]

\* Credential State.
Credentials == [user_name |-> user_name, user_auth |-> user_auth]

\* The constructor's assignments, before its get_me request.
Constructed == [base |-> "http://127.0.0.1:7099/api/%s", user_name |-> None,
                user_auth |-> None, send_auth |-> TRUE, user |-> Null]

\* The exchange a request opens, and the exchange once it is answered.
InFlight == [conn |-> "pending"]
Exchange(sent) ==
    [endpoint |-> sent.endpoint, params |-> sent.params, request |-> sent.request,
     response |-> InFlight]
Read(response) ==
    IF response.conn = "refused" THEN response
    ELSE [conn |-> "ok", text |-> response.text]
Answered(exchanges, response) ==
    [exchanges EXCEPT ![Len(exchanges)].response = Read(response)]
Exchanges(sent) == [i \in DOMAIN sent |-> Exchange(sent[i])]

\* The state after `step` of the call `op(args)`, `exchanges` being those
\* before the step.
Becomes(op, args, step, exchanges) ==
    /\ base' = step.self.base
    /\ user_name' = step.self.user_name
    /\ user_auth' = step.self.user_auth
    /\ send_auth' = step.self.send_auth
    /\ user' = step.self.user
    /\ stack' = step.stack
    /\ call' = [op |-> op, args |-> args,
                before |-> IF stack = <<>> THEN Credentials ELSE call.before]
    /\ log' = exchanges \o Exchanges(step.sent)
    /\ result' = step.out

\* A step of the client alone: what the server keeps stays as it is.
ServerKeeps == UNCHANGED <<accounts, registered>>

\* A client exists and no call is in progress.
Idle == stack = <<>> /\ result.kind # "pending"
            /\ ~(call.op = "__init__" /\ result.kind = "raise")

Init ==
    LET step == init_call(Constructed)
    IN  /\ base = step.self.base
        /\ user_name = step.self.user_name
        /\ user_auth = step.self.user_auth
        /\ send_auth = step.self.send_auth
        /\ user = step.self.user
        /\ stack = step.stack
        /\ call = [op |-> "__init__", args |-> <<>>,
                   before |-> [user_name |-> None, user_auth |-> None]]
        /\ log = Exchanges(step.sent)
        /\ result = step.out
        /\ accounts = <<>>
        /\ registered = <<>>

RequestParams ==
    {"thread_id" :> "t1", ("no_auth" :> TRUE) @@ ("thread_id" :> "t1"),
     ("no_auth" :> FALSE) @@ ("thread_id" :> "t1")}
Pairs == {<<"title", "teacups">>, <<"body", "a\nb">>}
PairLists == UNION {[1..n -> Pairs] : n \in 0..MaxPairs}

Request(endpoint, params) ==
    /\ Idle
    /\ ServerKeeps
    /\ Becomes("request", [endpoint |-> endpoint, params |-> params],
               request_call(Self, <<>>, endpoint, params), <<>>)

Validate(key, value, exception) ==
    /\ Idle
    /\ ServerKeeps
    /\ Becomes("validate", [key |-> key, value |-> value, exception |-> exception],
               validate_call(Self, <<>>, key, value, exception), <<>>)

ValidateAll(keys_and_values, exception) ==
    /\ Idle
    /\ ServerKeeps
    /\ Becomes("validate_all",
               [keys_and_values |-> keys_and_values, exception |-> exception],
               IF keys_and_values = <<>> THEN Ended(Self, Return(List(<<>>)))
               ELSE validate_all_call(Self, <<>>, keys_and_values, exception), <<>>)

ValidateCredentials(name, auth, exception) ==
    /\ Idle
    /\ ServerKeeps
    /\ Becomes("validate_credentials",
               [user_name |-> name, user_auth |-> auth, exception |-> exception],
               validate_credentials_call(Self, <<>>, name, auth, exception), <<>>)

SetCredentials(name, auth, hash_auth, check_validity) ==
    /\ Idle
    /\ ServerKeeps
    /\ Becomes("set_credentials",
               [user_name |-> name, user_auth |-> auth, hash_auth |-> hash_auth,
                check_validity |-> check_validity],
               set_credentials_call(Self, <<>>, name, auth, hash_auth, check_validity), <<>>)

UserRegister(name, auth, hash_auth, set_as_user) ==
    /\ Idle
    /\ ServerKeeps
    /\ Becomes("user_register",
               [user_name |-> name, user_auth |-> auth, hash_auth |-> hash_auth,
                set_as_user |-> set_as_user],
               user_register_call(Self, <<>>, name, auth, hash_auth, set_as_user), <<>>)

UserUpdate(params) ==
    /\ Idle
    /\ ServerKeeps
    /\ Becomes("user_update", [params |-> params],
               user_update_call(Self, <<>>, params), <<>>)

\* The caller assigns the attribute send_auth.
SetSendAuth(value) ==
    /\ Idle
    /\ ServerKeeps
    /\ Becomes("send_auth", [value |-> value],
               Ended([Self EXCEPT !.send_auth = value], Return(Null)), <<>>)

\* The transport answers the request in flight: request runs on from
\* urlopen, and its callers after it.
Deliver(response) ==
    /\ stack # <<>>
    /\ Becomes(call.op, call.args,
               Unwind(Self, SubSeq(stack, 1, Len(stack) - 1), request_recv(response)),
               Answered(log, response))

\* The transport answers with one of the responses the server may give.
Transport ==
    /\ stack # <<>>
    /\ \E response \in Responses(log[Len(log)].request) : Deliver(response)
    /\ ServerKeeps

Next ==
    \/ \E endpoint \in Endpoints, params \in RequestParams : Request(endpoint, params)
    \/ \E pair \in Pairs, exception \in ExceptionKinds :
            Validate(pair[1], pair[2], exception)
    \/ \E pairs \in PairLists, exception \in ExceptionKinds : ValidateAll(pairs, exception)
    \/ \E name \in RegisteredNames, auth \in Secrets, exception \in BOOLEAN :
            ValidateCredentials(name, sha256(auth), exception)
    \/ \E name \in UserNames, auth \in Secrets, hash_auth, check_validity \in BOOLEAN :
            SetCredentials(name, auth, hash_auth, check_validity)
    \/ \E name \in RegisteredNames, auth \in Secrets, hash_auth, set_as_user \in BOOLEAN :
            UserRegister(name, auth, hash_auth, set_as_user)
    \/ \E params \in RequestParams : UserUpdate(params)
    \/ \E value \in BOOLEAN : SetSendAuth(value)
    \/ Transport

Spec == Init /\ [][Next]_vars

(***************************************************************************)
(* The storing server: it accepts every shape, registers a user name once  *)
(* with the auth_hash it receives, compares that hash at check_auth and on *)
(* authorized requests, and answers a mismatch with error code 5.          *)
(***************************************************************************)
Success(data) == Obj([error |-> Bool(FALSE), data |-> data])
Failure(code) == Obj([error |-> ErrorObject(code), data |-> Null])
Profile(name) == Obj([user_name |-> Str(name)])

\* The server holds hash `auth` for user `name`.
Holds(name, auth) == name \in DOMAIN accounts /\ accounts[name] = auth

\* The user_register request `req` registers a new user name.
Registers(req) ==
    /\ req.url.endpoint = "user_register"
    /\ Sent(req)["user_name"] \notin DOMAIN accounts

\* The body the storing server answers to request `req`.
StoreBody(req) ==
    CASE req.url.endpoint = "db_validate" ->
            Success(Obj([bool |-> Bool(TRUE), description |-> Null]))
      [] req.url.endpoint = "check_auth" ->
            IF Sent(req)["target_user"] \notin DOMAIN accounts THEN Failure(3)
            ELSE IF Holds(Sent(req)["target_user"], Sent(req)["target_hash"])
            THEN Success(Bool(TRUE))
            ELSE Failure(5)
      [] req.url.endpoint = "user_register" ->
            IF Registers(req)
            THEN Success(Obj([user_name |-> Str(Sent(req)["user_name"]),
                              auth_hash |-> Str(Sent(req)["auth_hash"])]))
            ELSE Failure(4)
      [] OTHER ->
            IF "User" \notin DOMAIN req.headers THEN Success(Profile("anonymous"))
            ELSE IF Holds(req.headers["User"], req.headers["Auth"])
            THEN Success(Profile(req.headers["User"]))
            ELSE Failure(5)

StoreResponse(req) ==
    LET body == StoreBody(req)
    IN  [conn |-> "ok",
         status |-> IF Truthy(body.v["error"]) THEN 400 ELSE 200,
         text |-> json_dumps(body)]

\* The storing server answers the request in flight, and keeps the account
\* of a user it registers.
StoreTransport ==
    /\ stack # <<>>
    /\ LET req == log[Len(log)].request
       IN  /\ Deliver(StoreResponse(req))
           /\ IF Registers(req)
              THEN /\ accounts' = (Sent(req)["user_name"] :> Sent(req)["auth_hash"])
                                        @@ accounts
                   /\ registered' = (Sent(req)["user_name"] :>
                                        [user_auth |-> call.args.user_auth,
                                         hash_auth |-> call.args.hash_auth])
                                        @@ registered
              ELSE ServerKeeps

StoreNext ==
    \/ \E endpoint \in Endpoints, params \in RequestParams : Request(endpoint, params)
    \/ \E pair \in Pairs, exception \in ExceptionKinds :
            Validate(pair[1], pair[2], exception)
    \/ \E pairs \in PairLists, exception \in ExceptionKinds : ValidateAll(pairs, exception)
    \/ \E name \in RegisteredNames, auth \in Secrets, exception \in BOOLEAN :
            ValidateCredentials(name, sha256(auth), exception)
    \/ \E name \in UserNames, auth \in Secrets, hash_auth, check_validity \in BOOLEAN :
            SetCredentials(name, auth, hash_auth, check_validity)
    \/ \E name \in RegisteredNames, auth \in Secrets, hash_auth, set_as_user \in BOOLEAN :
            UserRegister(name, auth, hash_auth, set_as_user)
    \/ \E params \in RequestParams : UserUpdate(params)
    \/ \E value \in BOOLEAN : SetSendAuth(value)
    \/ StoreTransport

SpecStore == Init /\ [][StoreNext]_vars

(***************************************************************************)
(* Properties.                                                             *)
(***************************************************************************)
\* The call has ended, by return or by raise.
Done == stack = <<>> /\ result.kind # "pending"
Returned == Done /\ result.kind = "return"
Raised == Done /\ result.kind = "raise"
RaisedA(type) == Raised /\ result.exc.type = type

Anonymous == user_name = None /\ user_auth = None

\* The last exchange of the call, and the request in flight.
Last == log[Len(log)]
InFlightRequest == stack # <<>>

\* What the server answered in exchange x.
HasBody(x) == x.response.conn = "ok" /\ IsJson(x.response.text)
Body(x) == json_loads(x.response.text).v
HasError(x) == HasBody(x) /\ "error" \in DOMAIN Body(x) /\ Body(x)["error"].t = "dict"
ErrorCode(x) == Body(x)["error"].v.code.v
HasData(x) == HasBody(x) /\ ~HasError(x) /\ "data" \in DOMAIN Body(x)
Data(x) == Body(x)["data"]

\* The credentials a call of set_credentials or user_register supplies.
SuppliedAuth == IF call.args.hash_auth THEN sha256(call.args.user_auth)
                ELSE call.args.user_auth
SuppliedPair == [user_name |-> call.args.user_name, user_auth |-> SuppliedAuth]

Headers(x) == x.request.headers
CarriesAuth(x) == {"User", "Auth"} \subseteq DOMAIN Headers(x)
IsAnonymous(x) == DOMAIN Headers(x) = {"Content-Type"}

C2_BothOrNeither == (user_name = None) <=> (user_auth = None)

\* A call of set_credentials raised after its commit: both fields are set.
C2_Witness ==
    /\ Raised
    /\ call.op = "set_credentials"
    /\ call.before = [user_name |-> None, user_auth |-> None]
    /\ user_name # None /\ user_auth # None

\* C3: the request in flight carries User and Auth exactly when send_auth is
\* true, user_name and user_auth are non-empty and no_auth was not asked for;
\* they are then the current user_name and user_auth, and otherwise the only
\* header is Content-Type.
C3_AuthHeadersIff ==
    InFlightRequest =>
        LET attach == /\ send_auth
                      /\ user_name \notin {None, ""}
                      /\ user_auth \notin {None, ""}
                      /\ ~("no_auth" \in DOMAIN Last.params /\ Last.params["no_auth"])
        IN  /\ Headers(Last)["Content-Type"] = "application/json"
            /\ CarriesAuth(Last) <=> attach
            /\ CarriesAuth(Last) =>
                    /\ Headers(Last)["User"] = user_name
                    /\ Headers(Last)["Auth"] = user_auth
            /\ ~CarriesAuth(Last) => IsAnonymous(Last)

\* A request in flight that carries the credentials.
C3_Witness == InFlightRequest /\ CarriesAuth(Last) /\ call.op = "request"

\* C4: no request body handed to the transport has a no_auth key.
C4_NoAuthNeverSent ==
    \A i \in DOMAIN log : "no_auth" \notin DOMAIN json_loads(log[i].request.data)

\* The kind the error table gives a code.
KindOfCode(code) ==
    CASE code \in {0, 1, 2} -> "ChildProcessError"
      [] code = 3 -> "ValueError"
      [] code = 4 -> "UserWarning"
      [] code = 5 -> "ConnectionRefusedError"

\* The call of request ended by raising `kind` with the code, description
\* and body of the error object the server sent.
RaisedFor(kind, x) ==
    /\ RaisedA(kind)
    /\ DOMAIN result.exc.attrs = {"code", "description", "body"}
    /\ result.exc.attrs["code"] = Body(x)["error"].v.code
    /\ result.exc.attrs["description"] = Body(x)["error"].v.description
    /\ result.exc.attrs["body"] = Body(x)["error"]

\* C5: a call of request answered by an error object of code 0..5 raises the
\* kind of the table, with the object's code and description and the object.
C5_KnownCodesClassified ==
    (Done /\ call.op = "request" /\ HasError(Last) /\ ErrorCode(Last) \in 0..5)
    => RaisedFor(KindOfCode(ErrorCode(Last)), Last)

\* A call of request has raised for an error object of code 4.
C5_Witness ==
    Done /\ call.op = "request" /\ HasError(Last) /\ ErrorCode(Last) = 4

\* C6: a call of request answered by an error object whose code is outside
\* 0..5 raises ChildProcessError with that code, description and body.
C6_UnknownCodeIsInternalFault ==
    (Done /\ call.op = "request" /\ HasError(Last) /\ ErrorCode(Last) \notin 0..5)
    => RaisedFor("ChildProcessError", Last)

\* C7: when a call has changed Credential State to a pair of non-empty
\* values, the call is set_credentials or user_register with set_as_user, it
\* has returned, and the pair is the one it was given: a call that raised has
\* not made its pair the active credentials.
C7_AuthenticatedOnlyBySuccess ==
    (/\ Done
     /\ Credentials # call.before
     /\ user_name \notin {None, ""}
     /\ user_auth \notin {None, ""})
    => /\ \/ call.op = "set_credentials"
          \/ call.op = "user_register" /\ call.args.set_as_user
       /\ result.kind = "return"
       /\ Credentials = SuppliedPair

\* Exchange x is a check_auth request the server answered by rejecting the
\* pair: data false, or an error of code 5.
VerificationFailed(x) ==
    /\ x.endpoint = "check_auth"
    /\ \/ HasData(x) /\ ~Truthy(Data(x))
       \/ HasError(x) /\ ErrorCode(x) = 5

\* A step that takes Credential State from set to anonymous.
BecomesAnonymous == ~Anonymous /\ Anonymous'

\* The step is the end of a set_credentials call, entered by the caller or by
\* user_register, whose check_auth request the server has just rejected.
FailedVerificationStep ==
    /\ \E i \in DOMAIN stack :
            stack[i].fn = "set_credentials" /\ stack[i].at = "validate_credentials"
    /\ VerificationFailed(Last')
    /\ result'.kind = "raise"
    /\ result'.exc.type = "ConnectionRefusedError"

\* C8: Credential State goes from set to anonymous only in the step that ends
\* a set_credentials call whose verification the server has rejected.
C8_AnonymousOnlyByFailedVerification ==
    [][BecomesAnonymous => FailedVerificationStep]_vars

\* An authenticated client was taken back to anonymous by set_credentials.
C8_Witness ==
    /\ Raised
    /\ call.op = "set_credentials"
    /\ call.before.user_name \notin {None, ""}
    /\ call.before.user_auth \notin {None, ""}
    /\ Anonymous

\* set_credentials has returned: the fields are the pair given, the last
\* request is the get_me issued after the commit, and `user` is its data.
CommittedAndRefreshed ==
    /\ Credentials = SuppliedPair
    /\ Last.endpoint = "get_me"
    /\ "no_auth" \notin DOMAIN Last.params
    /\ HasData(Last)
    /\ user = Data(Last)

\* C9 as claimed: after set_credentials returns, the fields are the pair
\* given, `user` is the data of a get_me request that carried the new User
\* and Auth headers, and a later request without no_auth, send_auth being
\* true, carries them too.
C9_RefreshCarriesNewHeaders ==
    /\ (Returned /\ call.op = "set_credentials") =>
            /\ CommittedAndRefreshed
            /\ CarriesAuth(Last)
            /\ Headers(Last)["User"] = call.args.user_name
            /\ Headers(Last)["Auth"] = SuppliedAuth
    /\ (/\ InFlightRequest
        /\ call.op \in {"request", "user_update"}
        /\ ~Anonymous
        /\ "no_auth" \notin DOMAIN Last.params
        /\ send_auth) =>
            /\ Credentials = call.before
            /\ CarriesAuth(Last)
            /\ Headers(Last)["User"] = user_name
            /\ Headers(Last)["Auth"] = user_auth

\* C9 amended: the get_me request carries the new pair when send_auth is true
\* and both values are non-empty, and is anonymous otherwise; so does a later
\* request without no_auth while the credentials are in place.
C9_RefreshAfterCommit ==
    /\ (Returned /\ call.op = "set_credentials") =>
            /\ CommittedAndRefreshed
            /\ CarriesAuth(Last) <=>
                    (send_auth /\ call.args.user_name # "" /\ SuppliedAuth # "")
            /\ CarriesAuth(Last) =>
                    /\ Headers(Last)["User"] = call.args.user_name
                    /\ Headers(Last)["Auth"] = SuppliedAuth
            /\ ~CarriesAuth(Last) => IsAnonymous(Last)
    /\ (/\ InFlightRequest
        /\ call.op \in {"request", "user_update"}
        /\ ~Anonymous
        /\ "no_auth" \notin DOMAIN Last.params
        /\ send_auth) =>
            /\ Credentials = call.before
            /\ CarriesAuth(Last) <=> (user_name # "" /\ user_auth # "")
            /\ CarriesAuth(Last) =>
                    /\ Headers(Last)["User"] = user_name
                    /\ Headers(Last)["Auth"] = user_auth

\* set_credentials has replaced another user's credentials and returned, its
\* get_me request carrying the new pair.
C9_Witness ==
    /\ Returned
    /\ call.op = "set_credentials"
    /\ call.before.user_name \notin {None, "", call.args.user_name}
    /\ CarriesAuth(Last)

\* C10: no step of a call of request changes user_name, user_auth, send_auth
\* or base.
C10_RequestChangesNoField ==
    [][call'.op = "request" =>
            /\ user_name' = user_name
            /\ user_auth' = user_auth
            /\ send_auth' = send_auth
            /\ base' = base]_vars

\* A call of request by an authenticated client has raised a business error.
C10_Witness ==
    /\ Raised
    /\ call.op = "request"
    /\ HasError(Last)
    /\ user_name \notin {None, ""}

\* The kinds raise_exception can raise for an error object.
BusinessKinds == {"ChildProcessError", "ValueError", "UserWarning", "ConnectionRefusedError"}

\* C11: a call of request ends by what the transport delivered, whatever the
\* status was: a refused connection raises URLError; a decoded body with a
\* truthy error raises one of the classified kinds with the error object's
\* code, description and body, and returns nothing; any other decoded body is
\* returned unchanged.
C11_OutcomeFromBodyAlone ==
    (Done /\ call.op = "request") =>
        /\ Last.response.conn = "refused" => RaisedA("URLError")
        /\ HasError(Last) => \E kind \in BusinessKinds : RaisedFor(kind, Last)
        /\ (HasBody(Last) /\ ~HasError(Last)) =>
                Returned /\ result.value = json_loads(Last.response.text)

\* The requests of a user_register call that sets the user, in their order.
RegisterOrder == <<"user_register", "db_validate", "db_validate", "check_auth", "get_me">>

\* The original C12: a call of user_register with set_as_user issues no
\* db_validate and no check_auth request.
C12_RegisterCommitsUnverified ==
    (call.op = "user_register" /\ call.args.set_as_user) =>
        \A i \in DOMAIN log : log[i].endpoint \notin {"db_validate", "check_auth"}

\* C12: a call of user_register issues, after its user_register request and
\* only with set_as_user and a matching echo, db_validate for the user name,
\* db_validate for the hash, check_auth for the pair and get_me, in that
\* order; it returns with set_as_user only after all five, and until the
\* fifth is sent the credentials are those before the call, or None after a
\* failed verification.
C12_RegisterVerifiesThenCommits ==
    call.op = "user_register" =>
        LET n == Len(log)
        IN  /\ n <= 5
            /\ \A i \in 1..n : log[i].endpoint = RegisterOrder[i]
            /\ n >= 2 => /\ call.args.set_as_user
                         /\ HasData(log[1])
                         /\ log[2].params = ("no_auth" :> TRUE) @@ ("key" :> "user_name")
                                                @@ ("value" :> call.args.user_name)
            /\ n >= 3 => log[3].params = ("no_auth" :> TRUE) @@ ("key" :> "auth_hash")
                                                @@ ("value" :> SuppliedAuth)
            /\ n >= 4 => log[4].params = ("no_auth" :> TRUE)
                                                @@ ("target_user" :> call.args.user_name)
                                                @@ ("target_hash" :> SuppliedAuth)
            /\ n >= 5 => HasData(log[4]) /\ Truthy(Data(log[4]))
            /\ (Returned /\ call.args.set_as_user) => n = 5
            /\ n < 5 => Credentials \in {call.before, [user_name |-> None, user_auth |-> None]}

\* user_register with set_as_user has returned after its five requests.
C12_Witness ==
    /\ Returned
    /\ call.op = "user_register"
    /\ call.args.set_as_user
    /\ Len(log) = 5
    /\ Credentials = SuppliedPair

\* Exchange x is a db_validate request answered with data whose bool is false.
Invalid(x) ==
    /\ x.endpoint = "db_validate"
    /\ HasData(x)
    /\ ~Truthy(Data(x).v["bool"])

\* The parameters validate passes to request for one pair.
ValidateParams(key, value) == ("no_auth" :> TRUE) @@ ("key" :> key) @@ ("value" :> value)

\* C13: a call of validate_all with an exception kind issues one db_validate
\* request per pair, in the order of the list; when the server answers one of
\* them with bool false the call has raised that kind and that request is the
\* last one it issued; it returns only after a request for every pair.
C13_ValidateAllStopsAtFirstInvalid ==
    (call.op = "validate_all" /\ call.args.exception # None) =>
        LET pairs == call.args.keys_and_values
        IN  /\ Len(log) <= Len(pairs)
            /\ \A i \in DOMAIN log :
                    /\ log[i].endpoint = "db_validate"
                    /\ log[i].params = ValidateParams(pairs[i][1], pairs[i][2])
                    /\ Invalid(log[i]) =>
                            /\ i = Len(log)
                            /\ RaisedA(call.args.exception)
            /\ Returned => Len(log) = Len(pairs)

\* validate_all raised at the first of two pairs and never sent the second.
C13_Witness ==
    /\ call.op = "validate_all"
    /\ call.args.exception # None
    /\ Len(call.args.keys_and_values) = 2
    /\ Len(log) = 1
    /\ Invalid(log[1])
    /\ RaisedA(call.args.exception)

\* C14: a call of validate whose db_validate request the server answered with
\* data returns True when bool is true; when bool is false it returns False
\* if the exception argument is None, and otherwise raises that kind, made
\* from and carrying the description the server sent.
C14_ValidateModes ==
    (Done /\ call.op = "validate" /\ HasData(Last)) =>
        /\ Len(log) = 1
        /\ ~Invalid(Last) => Returned /\ result.value = Bool(TRUE)
        /\ (Invalid(Last) /\ call.args.exception = None) =>
                Returned /\ result.value = Bool(FALSE)
        /\ (Invalid(Last) /\ call.args.exception # None) =>
                /\ RaisedA(call.args.exception)
                /\ result.exc.arg = Data(Last).v["description"]
                /\ result.exc.attrs = ("description" :> Data(Last).v["description"])

\* validate raised the kind it was given for a value the server refused.
C14_Witness ==
    /\ call.op = "validate"
    /\ call.args.exception = "AssertionError"
    /\ Len(log) = 1
    /\ Invalid(Last)
    /\ RaisedA("AssertionError")
    /\ result.exc.attrs["description"] = Str("illegal value")

\* validate in boolean mode returned False for a value the server refused.
C14_BooleanModeReached ==
    /\ call.op = "validate"
    /\ call.args.exception = None
    /\ Invalid(Last)
    /\ Returned /\ result.value = Bool(FALSE)

\* C15: a call of validate_credentials issues db_validate for the user name,
\* then db_validate for the hash, then check_auth, and check_auth only after
\* the server accepted both shapes; when the server answers either db_validate
\* with bool false the call has raised ValueError, whatever its exception
\* argument, and that request is the last one it issued.
C15_ShapeCheckedBeforeCheckAuth ==
    call.op = "validate_credentials" =>
        LET n == Len(log)
        IN  /\ n \in 1..3
            /\ log[1].endpoint = "db_validate"
            /\ log[1].params = ValidateParams("user_name", call.args.user_name)
            /\ n >= 2 => /\ log[2].endpoint = "db_validate"
                         /\ log[2].params = ValidateParams("auth_hash", call.args.user_auth)
            /\ n = 3 => /\ log[3].endpoint = "check_auth"
                        /\ \A i \in 1..2 : HasData(log[i]) /\ ~Invalid(log[i])
            /\ \A i \in 1..n :
                    Invalid(log[i]) =>
                        /\ i = n
                        /\ RaisedA("ValueError")
                        /\ result.exc.attrs = ("description" :> Data(log[i]).v["description"])

\* validate_credentials(exception=False) raised ValueError for a hash the
\* server refused, without a check_auth request.
C15_Witness ==
    /\ call.op = "validate_credentials"
    /\ ~call.args.exception
    /\ Len(log) = 2
    /\ Invalid(log[2])
    /\ RaisedA("ValueError")

\* C16: a call of validate_credentials whose check_auth request the server
\* answered with an error of code 5 returns False when exception is False and
\* raises ConnectionRefusedError, with the error object's code, description
\* and body, when exception is True; user_name and user_auth are what they
\* were before the call in every state of it.
C16_RejectionModes ==
    call.op = "validate_credentials" =>
        /\ Credentials = call.before
        /\ (Done /\ Len(log) = 3 /\ HasError(log[3]) /\ ErrorCode(log[3]) = 5) =>
                IF call.args.exception
                THEN RaisedFor("ConnectionRefusedError", log[3])
                ELSE Returned /\ result.value = Bool(FALSE)

\* An authenticated client's validate_credentials(exception=False) returned
\* False for a pair the server rejected with code 5.
C16_Witness ==
    /\ call.op = "validate_credentials"
    /\ ~call.args.exception
    /\ Len(log) = 3
    /\ HasError(log[3]) /\ ErrorCode(log[3]) = 5
    /\ Returned /\ result.value = Bool(FALSE)
    /\ user_name \notin {None, ""} /\ user_auth \notin {None, ""}

\* validate_credentials(exception=True) raised for a pair rejected with code 5.
C16_RaisingModeReached ==
    /\ call.op = "validate_credentials"
    /\ call.args.exception
    /\ Len(log) = 3
    /\ HasError(log[3]) /\ ErrorCode(log[3]) = 5
    /\ RaisedA("ConnectionRefusedError")

\* C18: construction issues exactly one request, get_me without parameters,
\* with Content-Type as its only header, and holds user_name and user_auth at
\* None and send_auth at true throughout; when the connection is refused it
\* raises URLError, and after any raise no method of the client can be called
\* (there is no instance); when it returns, the cached profile is the data of
\* the get_me response.
C18_Construction ==
    call.op = "__init__" =>
        /\ Len(log) = 1
        /\ log[1].endpoint = "get_me"
        /\ log[1].params = <<>>
        /\ IsAnonymous(log[1])
        /\ Anonymous /\ send_auth
        /\ (Done /\ log[1].response.conn = "refused") => RaisedA("URLError")
        /\ Raised => ~ENABLED Next
        /\ Returned => HasData(log[1]) /\ user = Data(log[1])

\* Construction failed with URLError because the server refused the connection.
C18_Witness ==
    /\ call.op = "__init__"
    /\ log[1].response.conn = "refused"
    /\ RaisedA("URLError")
    /\ result.exc.arg = Str("Cannot connect (is the server down?)")

\* Construction returned an anonymous client with the profile the server sent.
C18_ConstructedReached ==
    /\ call.op = "__init__"
    /\ Returned
    /\ Anonymous /\ send_auth
    /\ user \in Profiles

\* The server answered the user_register request of the call with data whose
\* user_name or auth_hash is not the one sent.
MismatchedEcho ==
    /\ call.op = "user_register"
    /\ Len(log) >= 1
    /\ HasData(log[1])
    /\ ~(/\ Data(log[1]).v["auth_hash"] = Str(SuppliedAuth)
         /\ Data(log[1]).v["user_name"] = Str(call.args.user_name))

\* C19: the step in which user_register reads an echo that differs from what
\* it sent ends the call with AssertionError, with set_as_user or without:
\* the user_register request stays its only request, and user_name, user_auth
\* and the cached profile are what they were before the step and before the
\* call.
C19_MismatchRaisesBeforeCommit ==
    [][MismatchedEcho' =>
            /\ RaisedA("AssertionError")'
            /\ Len(log') = 1
            /\ user' = user
            /\ user_name' = user_name
            /\ user_auth' = user_auth
            /\ Credentials' = call'.before]_vars

\* An authenticated client's user_register with set_as_user raised on a
\* mismatched echo and kept its credentials.
C19_Witness ==
    /\ MismatchedEcho
    /\ call.args.set_as_user
    /\ RaisedA("AssertionError")
    /\ Len(log) = 1
    /\ user_name \notin {None, ""} /\ user_auth \notin {None, ""}
    /\ Credentials # SuppliedPair

\* The requests of a user_update call, its fields and its outcome: the
\* user_update request with the parameters given, then get_me only after the
\* first was answered without a raise; user_name and user_auth as before the
\* call; on return the profile of the get_me answer and the data of the
\* user_update answer.
UserUpdateSequence ==
    /\ Len(log) \in 1..2
    /\ log[1].endpoint = "user_update"
    /\ log[1].params = call.args.params
    /\ Len(log) = 2 => /\ log[2].endpoint = "get_me"
                       /\ log[2].params = <<>>
                       /\ HasBody(log[1]) /\ ~HasError(log[1])
    /\ Credentials = call.before
    /\ (Done /\ Len(log) = 1) => Raised
    /\ Returned => /\ Len(log) = 2
                   /\ HasData(log[1]) /\ HasData(log[2])
                   /\ user = Data(log[2])
                   /\ result.value = Data(log[1])

\* The original C20: as C20_UpdateThenRefresh below, but with both requests
\* carrying the current user_name and user_auth whenever the client has
\* them, both non-empty.
C20_BothWithCurrentCredentials ==
    [][call'.op = "user_update" =>
            /\ UserUpdateSequence'
            /\ \A i \in DOMAIN log' :
                    IF ~(TruthyStr(user_name') /\ TruthyStr(user_auth'))
                    THEN IsAnonymous(log'[i])
                    ELSE /\ CarriesAuth(log'[i])
                         /\ Headers(log'[i])["User"] = user_name'
                         /\ Headers(log'[i])["Auth"] = user_auth'
            /\ user' # user => Len(log') = 2 /\ Done']_vars

\* C20: user_update issues the user_update request and then get_me, in that
\* order, each with User and Auth of the current credentials exactly when
\* request attaches them (send_auth true, both values non-empty, no_auth not
\* passed true); on return the cached profile is the data of the get_me answer
\* and the value returned the data of the user_update answer; user_name and
\* user_auth never change; the cached profile changes only in the step that
\* ends the call after the get_me answer, so not when the update request
\* raised, after which no get_me request is issued.
C20_UpdateThenRefresh ==
    [][call'.op = "user_update" =>
            /\ UserUpdateSequence'
            /\ \A i \in DOMAIN log' :
                    IF /\ send_auth'
                       /\ TruthyStr(user_name') /\ TruthyStr(user_auth')
                       /\ ~NoAuthRequested(log'[i].params)
                    THEN /\ CarriesAuth(log'[i])
                         /\ Headers(log'[i])["User"] = user_name'
                         /\ Headers(log'[i])["Auth"] = user_auth'
                    ELSE IsAnonymous(log'[i])
            /\ user' # user => Len(log') = 2 /\ Done']_vars

\* An authenticated client's user_update returned the data of the update
\* answer and cached the different profile of the get_me answer.
C20_Witness ==
    /\ call.op = "user_update"
    /\ Returned
    /\ Len(log) = 2
    /\ CarriesAuth(log[1]) /\ CarriesAuth(log[2])
    /\ user = Data(log[2])
    /\ result.value = Data(log[1])
    /\ Data(log[1]) # Data(log[2])

\* The update request of user_update raised: no get_me request was issued.
C20_UpdateRaisedReached ==
    /\ call.op = "user_update"
    /\ Raised
    /\ Len(log) = 1
    /\ HasError(log[1])

\* The user name of the call is registered with the storing server, by a
\* user_register call that hashed the secret it was given.
RegisteredWithSecret ==
    /\ call.args.user_name \in DOMAIN registered
    /\ registered[call.args.user_name].hash_auth

\* C17: against the storing server, a user_register call that hashes sends
\* sha256 of the secret it was given, applied once; when the server accepts
\* the registration the call returns, the server keeps that digest, and with
\* set_as_user user_auth is that digest.  A later validate_credentials for
\* that user returns True with sha256 of the same secret, and with any other
\* hash raises ConnectionRefusedError (returns False when exception is False).
C17_DigestOnceRoundTrip ==
    /\ (call.op = "user_register" /\ call.args.hash_auth) =>
            LET digest == sha256(call.args.user_auth)
            IN  /\ Sent(log[1].request)["auth_hash"] = digest
                /\ (Done /\ HasData(log[1])) =>
                        /\ Returned
                        /\ Holds(call.args.user_name, digest)
                        /\ call.args.set_as_user =>
                                user_name = call.args.user_name /\ user_auth = digest
    /\ (Done /\ call.op = "validate_credentials" /\ RegisteredWithSecret) =>
            IF call.args.user_auth = sha256(registered[call.args.user_name].user_auth)
            THEN Returned /\ result.value = Bool(TRUE)
            ELSE IF call.args.exception
                 THEN RaisedA("ConnectionRefusedError")
                 ELSE Returned /\ result.value = Bool(FALSE)

\* After a registration with the secret "pw", validate_credentials with the
\* digest of "pw" returned True.
C17_Witness ==
    /\ call.op = "validate_credentials"
    /\ RegisteredWithSecret
    /\ registered[call.args.user_name].user_auth = "pw"
    /\ call.args.user_auth = sha256("pw")
    /\ Returned /\ result.value = Bool(TRUE)

\* After a registration, validate_credentials with the digest of another
\* secret raised ConnectionRefusedError.
C17_OtherSecretReached ==
    /\ call.op = "validate_credentials"
    /\ RegisteredWithSecret
    /\ call.args.user_auth # sha256(registered[call.args.user_name].user_auth)
    /\ RaisedA("ConnectionRefusedError")

=============================================================================
